---- MODULE Spec2Model ----
(***************************************************************************)
(* Model of the portfolio optimisation and risk analytics engine           *)
(* (src/models/portfolio_optimizer.py), of the routes that call it         *)
(* (src/backend/routes/portfolio.py) and of the session and search-history *)
(* routes (src/backend/routes/auth.py).                                    *)
(*                                                                         *)
(* Numbers.  The code computes in floating point; the model computes the   *)
(* same quantities exactly, as integers over a stated denominator:         *)
(*   - a return is an integer number of basis points (1e-4);               *)
(*   - a weight is an integer number of 1/WUnit, so a weight vector is     *)
(*     feasible when its entries lie in 0..WUnit and sum to WUnit;         *)
(*   - a percentage rounded to 2 decimals is an integer number of 0.01%;   *)
(*   - an amount rounded to 2 decimals is an integer number of cents.      *)
(* round(x, 2) is modelled by Round (nearest, ties to even) on the exact   *)
(* value.                                                                  *)
(*                                                                         *)
(* scipy.optimize.minimize is a library outside the repository: it is      *)
(* modelled by its contract (operator minimize below).                     *)
(***************************************************************************)
EXTENDS Integers, Sequences, FiniteSets, TLC

\* ---------------------------------------------------------------- bounds
MaxAssets == 2      \* columns of the return matrix: 0..MaxAssets
NumRows == 3        \* rows (periods) of the return matrix
MaxPoints == 3      \* n_points of efficient_frontier: 0..MaxPoints
MaxHoldings == 3    \* entries of a weights mapping given to diversification_score
MaxPriceRows == 3   \* rows (dates) of a price table: 0..MaxPriceRows
MaxSymbols == 60    \* symbols of an optimize request: 1..MaxSymbols
MaxIter == 2        \* iterations the solver may take in one solve: 0..MaxIter
MaxSessions == 2    \* session tokens create_session may hand out: 1..MaxSessions

\* per-period returns a cell of the return matrix may hold, in basis points
ReturnVals == {-10, 20}

\* the same for the calls of calculate_sharpe_ratio: 0 is a price that did
\* not move
SharpeReturnVals == {0, 20}

\* ------------------------------------------------------ program constants
TradingDays == 252          \* the annualisation factor
DefaultRiskFreeRate == 400  \* risk_free_rate = 0.04, in basis points

VARIABLES
    prices,          \* the price table of the caller: rows (dates) of closing prices
    returns,         \* the return matrix handed to the optimizer: rows of cells
    risk_free_rate,  \* PortfolioOptimizer.risk_free_rate
    attributes,      \* the names of the attributes set on the optimizer instance
    op,              \* the operation called last
    args,            \* its arguments other than the return matrix
    solves,          \* the results scipy's minimize gave during that call, in order
    result,          \* what the call returned (or the exception it raised)
    threads,         \* the calls running on the shared optimizer, one per thread
    users_db,        \* auth.users_db: email -> user record
    sessions,        \* auth.sessions: session token -> user_id
    search_history,  \* auth.search_history: user_id -> list of searches
    issued           \* the session tokens secrets.token_urlsafe has given out

vars == <<prices, returns, risk_free_rate, attributes, op, args, solves, result,
          threads, users_db, sessions, search_history, issued>>

\* ------------------------------------------------------------- arithmetic
RECURSIVE SumSeq(_)
SumSeq(s) == IF s = <<>> THEN 0 ELSE Head(s) + SumSeq(Tail(s))

Abs(x) == IF x < 0 THEN -x ELSE x

RECURSIVE Gcd(_, _)
Gcd(a, b) == IF b = 0 THEN a ELSE Gcd(b, a % b)

Lcm(a, b) == (a * b) \div Gcd(a, b)

RECURSIVE LcmUpTo(_)
LcmUpTo(k) == IF k <= 1 THEN 1 ELSE Lcm(k, LcmUpTo(k - 1))

MaxOf(a, b) == IF a >= b THEN a ELSE b

\* The weight grid: every 1/n (n <= MaxAssets) and every frontier step
\* i/(n_points - 1) is a whole number of 1/WUnit.
WUnit == LcmUpTo(MaxOf(MaxAssets, MaxPoints - 1))

\* round(num / den) for den > 0: nearest integer, ties to the even one.
Round(num, den) ==
    LET q == num \div den          \* floor
        r == num % den             \* 0 <= r < den
    IN  IF 2 * r < den THEN q
        ELSE IF 2 * r > den THEN q + 1
        ELSE IF q % 2 = 0 THEN q ELSE q + 1

\* floor(sqrt(x)) for x >= 0, by Newton's iteration from above.  Each
\* argument is bound to its value (v \in {r}) before it is used, so that it
\* is computed once however often the body refers to it.
RECURSIVE SqrtIter(_, _)
SqrtIter(x, r) ==
    CHOOSE s \in {LET nxt == (v + x \div v) \div 2
                  IN  IF nxt >= v THEN v ELSE SqrtIter(x, nxt) : v \in {r}} : TRUE

ISqrt(x) == CHOOSE s \in {IF v <= 0 THEN 0 ELSE SqrtIter(v, v) : v \in {x}} : TRUE

\* round(sqrt(num / den)) for num >= 0, den > 0: nearest integer, ties to even.
RoundSqrt(num, den) ==
    LET f == ISqrt(num \div den)
        lhs == 4 * num
        rhs == (2 * f + 1) * (2 * f + 1) * den
    IN  IF lhs < rhs THEN f
        ELSE IF lhs > rhs THEN f + 1
        ELSE IF f % 2 = 0 THEN f ELSE f + 1

\* ----------------------------------------------------- the return matrix
n_assets(R) == Len(R[1])

\* row a comes no later than row b in lexicographic order
RECURSIVE RowLeq(_, _)
RowLeq(a, b) ==
    \/ a = <<>>
    \/ Head(a) < Head(b)
    \/ Head(a) = Head(b) /\ RowLeq(Tail(a), Tail(b))

\* The return matrices over n assets.  Every operation of the optimizer reads
\* the rows only through column means, covariances and sorted row sums, which
\* do not depend on the order of the rows: one matrix per multiset of rows is
\* enumerated, the one whose rows are in lexicographic order.
MatricesOver(n, vals) ==
    {R \in [1..NumRows -> [1..n -> vals]] :
        \A t \in 1..(NumRows - 1) : RowLeq(R[t], R[t + 1])}

Matrices(n) == MatricesOver(n, ReturnVals)

ColSum(R, j) == SumSeq([t \in 1..Len(R) |-> R[t][j]])

\* returns.cov() * Len(R)^2 * (Len(R) - 1): the sample covariance matrix
\* (ddof = 1) with its denominators cleared; entry [i][j] is the sum over the
\* rows t of dev[t][i] * dev[t][j], dev[t][j] = Len(R) * (R[t][j] - mean of j).
\* (each function is joined with the empty one so that it is tabulated once
\* and not recomputed at every application)
CovS(R) ==
    LET n == n_assets(R)
        T == Len(R)
        sums == [j \in 1..n |-> ColSum(R, j)] @@ <<>>
        dev == [t \in 1..T |->
                   [j \in 1..n |-> T * R[t][j] - sums[j]] @@ <<>>] @@ <<>>
    IN  [i \in 1..n |->
            [j \in 1..n |->
                SumSeq([t \in 1..T |-> dev[t][i] * dev[t][j]])] @@ <<>>] @@ <<>>

\* the weight vectors over n assets that satisfy the bounds and sum(x) = 1
Weights(n) == {w \in [1..n -> 0..WUnit] : SumSeq(w) = WUnit}

\* a start that puts everything on the first asset
first_asset_weights(n) == [j \in 1..n |-> IF j = 1 THEN WUnit ELSE 0]

equal_weights(n) == [j \in 1..n |-> WUnit \div n]

\* ------------------------------------------------ calculate_portfolio_metrics
\* portfolio_return = ret_num / ret_den and portfolio_std = sqrt(var_num / var_den),
\* in basis points.
\* the numerators alone: np.sum(returns.mean() * weights) * 252 over
\* Len(R) * WUnit, and w' (cov * 252) w for cov = CovS(R)
portfolio_return_num(w, R) ==
    TradingDays * SumSeq([j \in 1..Len(w) |-> ColSum(R, j) * w[j]])

portfolio_variance_num(w, cov) ==
    TradingDays * SumSeq([i \in 1..Len(w) |->
                      SumSeq([j \in 1..Len(w) |-> w[i] * cov[i][j] * w[j]])])

calculate_portfolio_metrics(w, R) ==
    LET T == Len(R)
    IN  [ret_num |-> portfolio_return_num(w, R),
         ret_den |-> T * WUnit,
         var_num |-> portfolio_variance_num(w, CovS(R)),
         var_den |-> T * T * (T - 1) * WUnit * WUnit]

\* round(portfolio_return * 100, 2), in 0.01%
RoundedReturn(m) == Round(m.ret_num, m.ret_den)

\* round(portfolio_std * 100, 2), in 0.01%
RoundedVolatility(m) == RoundSqrt(m.var_num, m.var_den)

\* the ratio of the return to the volatility, the risk-free rate left out
calculate_sharpe_ratio_gross(w, R) ==
    LET m == calculate_portfolio_metrics(w, R)
    IN  [kind |-> IF m.var_num # 0 THEN "finite"
                  ELSE IF m.ret_num > 0 THEN "inf"
                  ELSE IF m.ret_num < 0 THEN "-inf"
                  ELSE "nan",
         num |-> m.ret_num, den |-> m.ret_den,
         var_num |-> m.var_num, var_den |-> m.var_den]

\* --------------------------------------------------- calculate_sharpe_ratio
\* (portfolio_return - self.risk_free_rate) / portfolio_std, a float64
\* division: finite when portfolio_std is not 0, and then equal to
\* (num / den) / sqrt(var_num / var_den); with portfolio_std = 0.0 numpy
\* divides without raising and gives inf, -inf or (for 0.0 / 0.0) nan.
calculate_sharpe_ratio(w, R) ==
    LET m == calculate_portfolio_metrics(w, R)
        excess == m.ret_num - risk_free_rate * m.ret_den
    IN  [kind |-> IF m.var_num # 0 THEN "finite"
                  ELSE IF excess > 0 THEN "inf"
                  ELSE IF excess < 0 THEN "-inf"
                  ELSE "nan",
         num |-> excess, den |-> m.ret_den,
         var_num |-> m.var_num, var_den |-> m.var_den]

\* ------------------------------------------------------------ the solver
\* scipy.optimize.minimize(fun, x0, method='SLSQP', bounds=(0, 1) per asset,
\* constraints=[sum(x) = 1, and for a frontier point return(x) = target]).
\* Contract: it either reports success = False (no convergence within its
\* iteration limit, or no feasible point), or success = True with a point x
\* that satisfies the bounds and the constraints and is a minimum of the
\* objective it was given: for the convex objective "volatility" a global
\* minimum over the feasible set (x0 itself when x0 is one, its gradient step
\* being zero); for the non-convex "negative_sharpe" a local minimum, which
\* may be any feasible point.  target is <<>> or <<num, den>>.  The model
\* holds the successful solves whose x has weights in 1/WUnit; where the
\* minimum lies off that grid, only the failed solve is in the model.
NoSolve == [success |-> FALSE, x |-> <<>>]

Feasible(R, n, target) ==
    {w \in Weights(n) :
        \/ target = <<>>
        \/ portfolio_return_num(w, R) * target[2] = target[1] * Len(R) * WUnit}

\* the first components of the pairs <<w, value>> whose value is least
ArgMin(pairs) ==
    IF pairs = {} THEN {}
    ELSE LET least == CHOOSE p \in pairs : \A q \in pairs : p[2] <= q[2]
         IN  {p[1] : p \in {q \in pairs : q[2] = least[2]}}

\* the points of S where w' Sigma w, and so the volatility, is least
ArgMinVolatility(R, S) ==
    ArgMin(UNION {{<<w, portfolio_variance_num(w, cov)>> : w \in S} :
                     cov \in {CovS(R)}})

\* w, a feasible point, is a minimum of w' Sigma w over the whole feasible
\* polytope, not only over the points with weights in 1/WUnit.  The objective
\* is convex, so this is the case exactly when its gradient g = Sigma w has
\* g . (v - w) >= 0 at every vertex v of the polytope: without a target
\* return the vertices are the unit vectors; with one they are the unit
\* vectors of the assets whose mean is the target and the points on the edge
\* between an asset below the target and one above it.
IsMinimum(w, R, constrained) ==
    LET n == Len(w)
        cov == CovS(R)
        g == [i \in 1..n |-> SumSeq([j \in 1..n |-> cov[i][j] * w[j]])] @@ <<>>
        gw == SumSeq([i \in 1..n |-> g[i] * w[i]])
        c == [i \in 1..n |-> ColSum(R, i)] @@ <<>>
        cw == SumSeq([i \in 1..n |-> c[i] * w[i]])
    IN  /\ \A i \in 1..n :
              (~constrained \/ c[i] * WUnit = cw) => g[i] * WUnit >= gw
        /\ constrained =>
              \A i, j \in 1..n :
                  (c[i] * WUnit < cw /\ cw < c[j] * WUnit) =>
                      (c[j] * WUnit - cw) * g[i] + (cw - c[i] * WUnit) * g[j]
                          >= (c[j] - c[i]) * gw

minimize(objective, R, x0, target) ==
    LET feas == Feasible(R, Len(x0), target)
        best == {w \in ArgMinVolatility(R, feas) : IsMinimum(w, R, target # <<>>)}
        sols == IF objective = "negative_sharpe" THEN feas
                ELSE IF x0 \in best THEN {x0} ELSE best
    IN  {NoSolve} \cup {[success |-> TRUE, x |-> w] : w \in sols}

\* ------------------------------------------------------------ results
NoResult ==
    [status |-> "none", error |-> "", success |-> FALSE, message |-> "",
     weights |-> <<>>, expected_return |-> 0, volatility |-> 0,
     var |-> 0, score |-> 0, http |-> 0,
     allocation |-> <<>>, dollars |-> <<>>, var_95 |-> 0, var_99 |-> 0,
     frontier_returns |-> <<>>, frontier_volatility |-> <<>>,
     frontier_weights |-> <<>>, returns_matrix |-> <<>>,
     sharpe_ratio |-> [kind |-> "none", num |-> 0, den |-> 1,
                       var_num |-> 0, var_den |-> 1],
     user |-> "", history |-> <<>>, token |-> 0, authenticated |-> FALSE]

Raised(e) == [NoResult EXCEPT !.status = "raised", !.error = e]

\* {'success': False, 'message': 'Optimization failed'}
Failed == [NoResult EXCEPT !.status = "returned", !.message = "Optimization failed"]

\* Succeeded with the weights scaled to percentages
SucceededAsPercent(x, R) ==
    LET m == calculate_portfolio_metrics(x, R)
    IN  [NoResult EXCEPT !.status = "returned", !.success = TRUE,
                         !.weights = [j \in 1..Len(x) |-> 100 * x[j]],
                         !.expected_return = Round(m.ret_num, m.ret_den),
                         !.volatility = RoundSqrt(m.var_num, m.var_den)]

\* {'weights': dict(zip(columns, x)), 'expected_return': ..., 'volatility': ...,
\*  'sharpe_ratio': round(sharpe, 3), 'success': True}; weights are x itself,
\*  in 1/WUnit; sharpe_ratio is held unrounded (round keeps inf and nan).
Succeeded(x, R) ==
    LET m == calculate_portfolio_metrics(x, R)
    IN  [NoResult EXCEPT !.status = "returned", !.success = TRUE,
                         !.weights = x,
                         !.expected_return = RoundedReturn(m),
                         !.volatility = RoundedVolatility(m),
                         !.sharpe_ratio = calculate_sharpe_ratio(x, R)]

\* ------------------------------------------------------- optimize_sharpe
\* optimize_sharpe raising on a failed solve instead of returning
optimize_sharpe_raising(R, sol) ==
    IF n_assets(R) = 0 THEN Raised("ZeroDivisionError")
    ELSE IF sol.success THEN Succeeded(sol.x, R)
    ELSE Raised("OptimizationFailureError")

\* sol is what minimize returned; with no asset, 1/n_assets raises before
\* minimize is called.
optimize_sharpe(R, sol) ==
    IF n_assets(R) = 0 THEN Raised("ZeroDivisionError")
    ELSE IF sol.success THEN Succeeded(sol.x, R)
    ELSE Failed

optimize_min_volatility(R, sol) ==
    IF n_assets(R) = 0 THEN Raised("ZeroDivisionError")
    ELSE IF sol.success THEN Succeeded(sol.x, R)
    ELSE Failed

\* the solves a call of optimize_* may see
Solves(objective, R) ==
    IF n_assets(R) = 0 THEN {<<>>}
    ELSE {<<s>> : s \in minimize(objective, R, equal_weights(n_assets(R)), <<>>)}

\* the solves of an optimize_sharpe that runs minimize a second time when the
\* first solve failed
optimize_sharpe_solves_retrying(R) ==
    LET once == Solves("negative_sharpe", R)
    IN  {ss \in once : ss = <<>> \/ ss[1].success}
            \cup {<<NoSolve>> \o ss : ss \in {s \in once : s # <<>>}}

\* minimize(self.negative_sharpe, initial_weights, args=(returns,), ...)
optimize_sharpe_solves(R) == Solves("negative_sharpe", R)

\* optimize_min_volatility handing minimize the objective of optimize_sharpe
optimize_min_volatility_wrong_objective(R) == Solves("negative_sharpe", R)

\* minimize(portfolio_volatility, initial_weights, ...)
optimize_min_volatility_solves(R) == Solves("volatility", R)

NoArgs == [weights |-> <<>>, confidence |-> 0, portfolio_value |-> 0,
           n_points |-> 0, method |-> "", prices |-> <<>>,
           email |-> "", password |-> "", token |-> 0, symbol |-> "",
           type |-> ""]

CalculateSharpeRatio ==
    /\ op = "none"
    /\ n_assets(returns) > 0
    /\ \E w \in Weights(n_assets(returns)) :
          /\ args' = [NoArgs EXCEPT !.weights = w]
          /\ result' = [NoResult EXCEPT
                           !.status = "returned",
                           !.sharpe_ratio = calculate_sharpe_ratio(w, returns)]
    /\ op' = "calculate_sharpe_ratio"
    /\ solves' = <<>>
    /\ UNCHANGED <<prices, returns, risk_free_rate, attributes>>
    /\ UNCHANGED <<threads, users_db, sessions, search_history, issued>>

\* optimize_sharpe keeping its last result on the instance
OptimizeSharpeStoring ==
    /\ op = "none"
    /\ \E ss \in optimize_sharpe_solves(returns) :
          /\ solves' = ss
          /\ result' = optimize_sharpe(returns, IF ss = <<>> THEN NoSolve ELSE ss[1])
    /\ op' = "optimize_sharpe"
    /\ args' = NoArgs
    /\ attributes' = attributes \cup {"last_result"}
    /\ UNCHANGED <<prices, returns, risk_free_rate>>
    /\ UNCHANGED <<threads, users_db, sessions, search_history, issued>>

\* No method of the class assigns to self: the instance is left as __init__
\* made it.
OptimizeSharpe ==
    /\ op = "none"
    /\ \E ss \in optimize_sharpe_solves(returns) :
          /\ solves' = ss
          /\ result' = optimize_sharpe(returns, IF ss = <<>> THEN NoSolve ELSE ss[1])
    /\ op' = "optimize_sharpe"
    /\ args' = NoArgs
    /\ UNCHANGED <<prices, returns, risk_free_rate, attributes>>
    /\ UNCHANGED <<threads, users_db, sessions, search_history, issued>>

OptimizeMinVolatility ==
    /\ op = "none"
    /\ \E ss \in optimize_min_volatility_solves(returns) :
          /\ solves' = ss
          /\ result' = optimize_min_volatility(returns,
                                               IF ss = <<>> THEN NoSolve ELSE ss[1])
    /\ op' = "optimize_min_volatility"
    /\ args' = NoArgs
    /\ UNCHANGED <<prices, returns, risk_free_rate, attributes>>
    /\ UNCHANGED <<threads, users_db, sessions, search_history, issued>>

\* ------------------------------------------------------- calculate_returns
\* closing prices a cell of the price table may hold
PriceVals == {100, 125}

\* The aligned price tables: every date carries a price of every asset.  A
\* table with no date has no column either (pd.DataFrame()).
PriceTables ==
    {<<>>} \cup UNION {[1..P -> [1..n -> PriceVals]] :
                          P \in 1..MaxPriceRows, n \in 1..MaxAssets}

\* A cell of the frame pct_change gives: NaN, or the fraction num / den.
NaN == [nan |-> TRUE, num |-> 0, den |-> 1]

\* prices.pct_change(): price[t] / price[t-1] - 1 per cell; the first row,
\* which has no prior price, is NaN in every column.
pct_change(P) ==
    [t \in 1..Len(P) |-> [j \in 1..Len(P[t]) |->
        IF t = 1 THEN NaN
        ELSE [nan |-> FALSE, num |-> P[t][j] - P[t - 1][j], den |-> P[t - 1][j]]]]

\* .dropna(): the rows that hold no NaN, in their order
dropna(M) == SelectSeq(M, LAMBDA row : \A j \in 1..Len(row) : ~row[j].nan)

\* calculate_returns without the dropna()
calculate_returns_keeping_na(P) == pct_change(P)

\* return prices.pct_change().dropna(): a new frame; prices is only read
calculate_returns(P) == dropna(pct_change(P))

CalculateReturns ==
    /\ op = "none"
    /\ args' = [NoArgs EXCEPT !.prices = prices]
    /\ result' = [NoResult EXCEPT !.status = "returned",
                                  !.returns_matrix = calculate_returns(prices)]
    /\ op' = "calculate_returns"
    /\ solves' = <<>>
    /\ UNCHANGED <<prices, returns, risk_free_rate, attributes>>
    /\ UNCHANGED <<threads, users_db, sessions, search_history, issued>>

\* ------------------------------------------------------ efficient_frontier
MinColSum(R) ==
    CHOOSE m \in {ColSum(R, j) : j \in 1..n_assets(R)} :
        \A j \in 1..n_assets(R) : m <= ColSum(R, j)

MaxColSum(R) ==
    CHOOSE m \in {ColSum(R, j) : j \in 1..n_assets(R)} :
        \A j \in 1..n_assets(R) : m >= ColSum(R, j)

\* np.linspace(min_ret, max_ret, n_points, endpoint=False)[i - 1]
target_returns_open(R, n_points, i) ==
    <<TradingDays * ((n_points - i + 1) * MinColSum(R) + (i - 1) * MaxColSum(R)),
      Len(R) * n_points>>

\* np.linspace(min_ret, max_ret, n_points)[i - 1] as <<num, den>>, in basis
\* points, with min_ret = returns.mean().min() * 252 and max_ret likewise;
\* np.linspace(a, b, 1) is [a].
target_returns(R, n_points, i) ==
    IF n_points = 1 THEN <<TradingDays * MinColSum(R), Len(R)>>
    ELSE <<TradingDays * ((n_points - i) * MinColSum(R) + (i - 1) * MaxColSum(R)),
           Len(R) * (n_points - 1)>>

\* the loop leaving at the first failed solve
RECURSIVE frontier_loop_break(_, _, _, _)
frontier_loop_break(R, sols, i, acc) ==
    IF i > Len(sols) \/ ~sols[i].success THEN acc
    ELSE LET m == calculate_portfolio_metrics(sols[i].x, R)
         IN  frontier_loop_break(R, sols, i + 1,
                 [acc EXCEPT
                     !.frontier_returns = Append(@, m.ret_num),
                     !.frontier_volatility = Append(@, m.var_num),
                     !.frontier_weights = Append(@, sols[i].x)])

\* the loop appending the return of every solve, successful or not
RECURSIVE frontier_loop_unaligned(_, _, _, _)
frontier_loop_unaligned(R, sols, i, acc) ==
    IF i > Len(sols) THEN acc
    ELSE IF sols[i].success
    THEN LET m == calculate_portfolio_metrics(sols[i].x, R)
         IN  frontier_loop_unaligned(R, sols, i + 1,
                 [acc EXCEPT
                     !.frontier_returns = Append(@, m.ret_num),
                     !.frontier_volatility = Append(@, m.var_num),
                     !.frontier_weights = Append(@, sols[i].x)])
    ELSE frontier_loop_unaligned(R, sols, i + 1,
             [acc EXCEPT !.frontier_returns = Append(@, 0)])

\* The for loop from its i-th target on: sols[i] is what minimize returned
\* for target i; a successful solve appends one entry to each of the three
\* lists, a failed one appends nothing.  frontier_returns holds ret * 100 as
\* the numerator ret_num; frontier_volatility holds vol * 100 as the numerator
\* var_num of its square.
RECURSIVE frontier_loop(_, _, _, _)
frontier_loop(R, sols, i, acc) ==
    IF i > Len(sols) THEN acc
    ELSE IF sols[i].success
    THEN LET m == calculate_portfolio_metrics(sols[i].x, R)
         IN  frontier_loop(R, sols, i + 1,
                 [acc EXCEPT
                     !.frontier_returns = Append(@, m.ret_num),
                     !.frontier_volatility = Append(@, m.var_num),
                     !.frontier_weights = Append(@, sols[i].x)])
    ELSE frontier_loop(R, sols, i + 1, acc)

\* With no asset the first pass of the loop raises at 1/n_assets; with
\* n_points = 0 the loop body never runs.
efficient_frontier(R, n_points, sols) ==
    IF n_points > 0 /\ n_assets(R) = 0 THEN Raised("ZeroDivisionError")
    ELSE frontier_loop(R, sols, 1, [NoResult EXCEPT !.status = "returned"])

\* the solves of the loop, were minimize handed the objective of
\* optimize_sharpe instead of portfolio_volatility
RECURSIVE SolvesFromSharpe(_, _, _)
SolvesFromSharpe(R, n_points, i) ==
    IF i > n_points THEN {<<>>}
    ELSE LET first == minimize("negative_sharpe", R, equal_weights(n_assets(R)),
                               target_returns(R, n_points, i))
             rest == SolvesFromSharpe(R, n_points, i + 1)
         IN  {<<s>> \o ss : s \in first, ss \in rest}

\* the sequences of solves an efficient_frontier call may see from target i
\* on: one solve per target, each from the equal-weight start
RECURSIVE SolvesFrom(_, _, _)
SolvesFrom(R, n_points, i) ==
    IF i > n_points THEN {<<>>}
    ELSE LET first == minimize("volatility", R, equal_weights(n_assets(R)),
                               target_returns(R, n_points, i))
             rest == SolvesFrom(R, n_points, i + 1)
         IN  {<<s>> \o ss : s \in first, ss \in rest}

FrontierSolves(R, n_points) ==
    IF n_assets(R) = 0 THEN {<<>>} ELSE SolvesFrom(R, n_points, 1)

EfficientFrontier ==
    /\ op = "none"
    /\ \E n_points \in 0..MaxPoints :
          /\ args' = [NoArgs EXCEPT !.n_points = n_points]
          /\ \E ss \in FrontierSolves(returns, n_points) :
                /\ solves' = ss
                /\ result' = efficient_frontier(returns, n_points, ss)
    /\ op' = "efficient_frontier"
    /\ UNCHANGED <<prices, returns, risk_free_rate, attributes>>
    /\ UNCHANGED <<threads, users_db, sessions, search_history, issued>>

\* ----------------------------------------------------------- calculate_var
\* the confidence levels the callers pass, in percent, and the portfolio
\* values, in hundreds of dollars
Confidences == {95, 99}
PortfolioValues == {100, 1000}

\* (returns * weights).sum(axis=1): one value per row, in basis points / WUnit
portfolio_returns(R, w) ==
    [t \in 1..Len(R) |-> SumSeq([j \in 1..Len(w) |-> R[t][j] * w[j]])]

\* percentile taking the lower order statistic, without interpolation
percentile_lower(a, q) ==
    100 * SortSeq(a, LAMBDA x, y : x < y)[(q * (Len(a) - 1)) \div 100 + 1]

\* 100 * np.percentile(a, q), the default (linear) method: the value at the
\* virtual index q/100 * (len - 1) of the sorted data, interpolated between
\* the two neighbouring order statistics.
percentile(a, q) ==
    LET sorted == SortSeq(a, LAMBDA x, y : x < y)
        pos == q * (Len(a) - 1)
        lo == pos \div 100 + 1
        hi == IF lo < Len(a) THEN lo + 1 ELSE lo
        g == pos % 100
    IN  100 * sorted[lo] + g * (sorted[hi] - sorted[lo])

\* abs(np.percentile(portfolio_returns, (1 - confidence) * 100) * portfolio_value),
\* in 1/(100 * WUnit) cents
calculate_var(R, w, confidence, portfolio_value) ==
    Abs(percentile(portfolio_returns(R, w), 100 - confidence) * portfolio_value)

\* round(var, 2), in cents
RoundedVar(v) == Round(v, 100 * WUnit)

CalculateVar ==
    /\ op = "none"
    /\ n_assets(returns) > 0
    /\ \E w \in Weights(n_assets(returns)), c \in Confidences, pv \in PortfolioValues :
          /\ args' = [NoArgs EXCEPT !.weights = w, !.confidence = c,
                                    !.portfolio_value = pv]
          /\ result' = [NoResult EXCEPT !.status = "returned",
                                        !.var = calculate_var(returns, w, c, pv)]
    /\ op' = "calculate_var"
    /\ solves' = <<>>
    /\ UNCHANGED <<prices, returns, risk_free_rate, attributes>>
    /\ UNCHANGED <<threads, users_db, sessions, search_history, issued>>

\* --------------------------------------------------- diversification_score
\* the score without the division of the summed deviations by 2
diversification_score_unhalved(weights, unit) ==
    LET n == Len(weights)
        deviations == SumSeq([i \in 1..n |-> Abs(n * weights[i] - unit)])
    IN  Round(10000 * (n * unit - deviations), n * unit)

\* the score with signed deviations, abs() left out
diversification_score_signed(weights, unit) ==
    LET n == Len(weights)
        deviations == SumSeq([i \in 1..n |-> n * weights[i] - unit])
    IN  Round(10000 * (2 * n * unit - deviations), 2 * n * unit)

\* weights: the values of the mapping, each an integer number of 1/unit.
\* ideal_weight = 1/n, so abs(w - ideal_weight) = Abs(n * w - unit) / (n * unit);
\* round(100 * (1 - sum(deviations) / 2), 2), in 0.01 points.
diversification_score(weights, unit) ==
    LET n == Len(weights)
        deviations == SumSeq([i \in 1..n |-> Abs(n * weights[i] - unit)])
    IN  Round(10000 * (2 * n * unit - deviations), 2 * n * unit)

\* a call of diversification_score: an empty mapping raises at 1.0 / len(...)
diversification_call(weights, unit) ==
    IF Len(weights) = 0 THEN Raised("ZeroDivisionError")
    ELSE [NoResult EXCEPT !.status = "returned",
                          !.score = diversification_score(weights, unit)]

\* The mappings diversification_score is called with, each value an integer
\* number of 1/DivUnit: optimize_portfolio passes the weights of a successful
\* optimisation (non-negative, summing to 1); any other caller of this public
\* method, as analyze_risk is written to be, passes a mapping of its own that
\* nothing has validated.
DivUnit == LcmUpTo(MaxHoldings)

AllocationWeights ==
    UNION {{w \in [1..n -> 0..DivUnit] : SumSeq(w) = DivUnit} : n \in 1..MaxHoldings}

RequestWeightVals == (0..DivUnit) \cup {-DivUnit, 2 * DivUnit}

RequestWeights == UNION {[1..n -> RequestWeightVals] : n \in 0..MaxHoldings}

\* optimizer.diversification_score(result['weights']) in optimize_portfolio
DiversificationOfAllocation ==
    /\ op = "none"
    /\ \E w \in AllocationWeights :
          /\ args' = [NoArgs EXCEPT !.weights = w, !.method = "optimize"]
          /\ result' = diversification_call(w, DivUnit)
    /\ op' = "diversification_score"
    /\ UNCHANGED <<prices, returns, risk_free_rate, attributes, solves>>
    /\ UNCHANGED <<threads, users_db, sessions, search_history, issued>>

\* optimizer.diversification_score(weights) on a mapping as a caller sent it
DiversificationOfRequest ==
    /\ op = "none"
    /\ \E w \in RequestWeights :
          /\ args' = [NoArgs EXCEPT !.weights = w, !.method = "risk-analysis"]
          /\ result' = diversification_call(w, DivUnit)
    /\ op' = "diversification_score"
    /\ UNCHANGED <<prices, returns, risk_free_rate, attributes, solves>>
    /\ UNCHANGED <<threads, users_db, sessions, search_history, issued>>

\* ------------------------------------------------ POST /api/portfolio/optimize
Methods == {"sharpe", "min_volatility", "other"}

HttpError == [NoResult EXCEPT !.status = "returned", !.http = 500]

\* the allocation with each weight rounded to a whole percent
allocation_weights_whole(w, unit) ==
    [j \in 1..Len(w) |-> 100 * Round(w[j] * 100, unit)]

\* 'weights': {k: round(v * 100, 2) for k, v in result['weights'].items()}:
\* each weight, a number w[j] of 1/unit, as a percentage in 0.01%
allocation_weights(w, unit) ==
    [j \in 1..Len(w) |-> Round(w[j] * 10000, unit)]

\* res is what optimize_sharpe / optimize_min_volatility returned.  Every
\* exception, the HTTPException for an unsuccessful result included, is caught
\* by the handler's except clause and answered with status 500.
optimize_portfolio(R, method, portfolio_value, res) ==
    IF n_assets(R) = 0 THEN HttpError                \* prices.empty: ValueError
    ELSE IF method \notin {"sharpe", "min_volatility"} THEN HttpError
    ELSE IF res.status = "raised" \/ ~res.success THEN HttpError
    ELSE
        LET w == res.weights
            n == Len(w)
        IN  [res EXCEPT
                !.http = 200,
                !.allocation = allocation_weights(w, WUnit),
                \* round(weight * portfolio_value, 2), in cents
                !.dollars = [j \in 1..n |-> Round(w[j] * portfolio_value * 10000, WUnit)],
                !.score = diversification_score(w, WUnit),
                !.var_95 = RoundedVar(calculate_var(R, w, 95, portfolio_value)),
                !.var_99 = RoundedVar(calculate_var(R, w, 99, portfolio_value))]

OptimizePortfolio ==
    /\ op = "none"
    /\ \E method \in Methods, pv \in PortfolioValues :
          /\ args' = [NoArgs EXCEPT !.method = method, !.portfolio_value = pv]
          /\ \/ /\ n_assets(returns) = 0 \/ method = "other"
                /\ solves' = <<>>
                /\ result' = optimize_portfolio(returns, method, pv, NoResult)
             \/ /\ n_assets(returns) > 0
                /\ method = "sharpe"
                /\ \E ss \in optimize_sharpe_solves(returns) :
                      /\ solves' = ss
                      /\ result' = optimize_portfolio(returns, method, pv,
                                        optimize_sharpe(returns, ss[1]))
             \/ /\ n_assets(returns) > 0
                /\ method = "min_volatility"
                /\ \E ss \in optimize_min_volatility_solves(returns) :
                      /\ solves' = ss
                      /\ result' = optimize_portfolio(returns, method, pv,
                                        optimize_min_volatility(returns, ss[1]))
    /\ op' = "optimize_portfolio"
    /\ UNCHANGED <<prices, returns, risk_free_rate, attributes>>
    /\ UNCHANGED <<threads, users_db, sessions, search_history, issued>>

\* The 'allocation' part of the response for a successful optimisation over
\* n symbols (request.symbols is a list of any length) whose weights are
\* spread evenly over k of them, each weight 1 in units of 1/k.
AllocationOfResult ==
    /\ op = "none"
    /\ \E n \in 1..MaxSymbols : \E k \in 1..n :
          LET w == [j \in 1..n |-> IF j <= k THEN 1 ELSE 0]
          IN  /\ args' = [NoArgs EXCEPT !.method = "sharpe"]
              /\ result' = [NoResult EXCEPT
                               !.status = "returned", !.success = TRUE,
                               !.http = 200, !.weights = w,
                               !.allocation = allocation_weights(w, k)]
    /\ op' = "allocation"
    /\ UNCHANGED <<prices, returns, risk_free_rate, attributes, solves>>
    /\ UNCHANGED <<threads, users_db, sessions, search_history, issued>>

\* ------------------------------------------- POST /api/portfolio/risk-analysis
\* weights_array is a Python list, so calculate_portfolio_metrics raises
\* AttributeError at weights.T for every request, before the Sharpe ratio,
\* the VaR and the diversification score are computed; the handler's except
\* clause answers with status 500 and the text of the exception.  Neither
\* request.weights nor request.portfolio_value is examined before that.
analyze_risk(weights, portfolio_value) ==
    [HttpError EXCEPT !.error = "AttributeError"]

AnalyzeRisk ==
    /\ op = "none"
    /\ \E w \in RequestWeights, pv \in PortfolioValues :
          /\ args' = [NoArgs EXCEPT !.weights = w, !.portfolio_value = pv,
                                    !.method = "risk-analysis"]
          /\ result' = analyze_risk(w, pv)
    /\ op' = "analyze_risk"
    /\ UNCHANGED <<prices, returns, risk_free_rate, attributes, solves>>
    /\ UNCHANGED <<threads, users_db, sessions, search_history, issued>>

\* The caller is done with the result: results are created per call and
\* dropped after the response is produced; the optimizer keeps none of them.
Discard ==
    /\ op # "none"
    /\ op' = "none"
    /\ args' = NoArgs
    /\ solves' = <<>>
    /\ result' = NoResult
    /\ UNCHANGED <<prices, returns, risk_free_rate, attributes>>
    /\ UNCHANGED <<threads, users_db, sessions, search_history, issued>>

\* ------------------------------------- calls running on the shared instance
\* A thread runs one call at a time on the module-level optimizer.  The call
\* holds its arguments, its solves and its result in locals; what it shares
\* with the other threads is the instance (risk_free_rate, attributes).
\* Every solve is a run of scipy's SLSQP loop, which takes at most its
\* iteration limit (maxiter) of iterations: when the limit is reached the
\* solve ends with success = False.
ThreadOps ==
    {"optimize_sharpe", "optimize_min_volatility", "efficient_frontier",
     "calculate_var"}

\* the return matrices the threads' calls are given
ThreadMatrices == Matrices(1)

IdleThread ==
    [pc |-> "idle", op |-> "none", R |-> <<>>, args |-> NoArgs,
     iterations |-> 0, solves |-> <<>>, result |-> NoResult]

\* the arguments a call of o on R may carry besides R
ThreadArgs(o, R) ==
    IF o = "efficient_frontier"
    THEN {[NoArgs EXCEPT !.n_points = n] : n \in 0..(MaxPoints - 1)}
    ELSE IF o = "calculate_var"
    THEN {[NoArgs EXCEPT !.weights = w, !.confidence = c, !.portfolio_value = pv] :
             w \in Weights(n_assets(R)), c \in Confidences, pv \in PortfolioValues}
    ELSE {NoArgs}

\* the number of minimize calls the call c makes
SolvesNeeded(c) ==
    IF c.op \in {"optimize_sharpe", "optimize_min_volatility"} THEN 1
    ELSE IF c.op = "efficient_frontier" THEN c.args.n_points
    ELSE 0

\* what the k-th minimize call of c may return
SolveOutcomes(c, k) ==
    LET x0 == equal_weights(n_assets(c.R))
    IN  IF c.op = "optimize_sharpe" THEN minimize("negative_sharpe", c.R, x0, <<>>)
        ELSE IF c.op = "optimize_min_volatility"
        THEN minimize("volatility", c.R, x0, <<>>)
        ELSE minimize("volatility", c.R, x0,
                      target_returns(c.R, c.args.n_points, k))

\* what the call c returns once its solves are done
CallResult(c) ==
    IF c.op = "optimize_sharpe" THEN optimize_sharpe(c.R, c.solves[1])
    ELSE IF c.op = "optimize_min_volatility"
    THEN optimize_min_volatility(c.R, c.solves[1])
    ELSE IF c.op = "efficient_frontier"
    THEN efficient_frontier(c.R, c.args.n_points, c.solves)
    ELSE [NoResult EXCEPT
             !.status = "returned",
             !.var = calculate_var(c.R, c.args.weights, c.args.confidence,
                                   c.args.portfolio_value)]

ThreadFrame ==
    UNCHANGED <<prices, returns, op, args, solves, result,
                users_db, sessions, search_history, issued>>

BeginCall(p) ==
    /\ threads[p].pc = "idle"
    /\ \E o \in ThreadOps, R \in ThreadMatrices :
          \E a \in ThreadArgs(o, R) :
              threads' = [threads EXCEPT ![p] =
                             [IdleThread EXCEPT !.pc = "called", !.op = o,
                                                !.R = R, !.args = a]]
    /\ UNCHANGED <<risk_free_rate, attributes>>
    /\ ThreadFrame

\* the solver's loop starting over at its iteration limit instead of ending
IterateSolveRestarting(p) ==
    /\ threads[p].pc = "called"
    /\ Len(threads[p].solves) < SolvesNeeded(threads[p])
    /\ threads' = [threads EXCEPT ![p].iterations =
                       IF @ < MaxIter THEN @ + 1 ELSE 1]
    /\ UNCHANGED <<risk_free_rate, attributes>>
    /\ ThreadFrame

\* one more iteration of the running solve
IterateSolve(p) ==
    /\ threads[p].pc = "called"
    /\ Len(threads[p].solves) < SolvesNeeded(threads[p])
    /\ threads[p].iterations < MaxIter
    /\ threads' = [threads EXCEPT ![p].iterations = @ + 1]
    /\ UNCHANGED <<risk_free_rate, attributes>>
    /\ ThreadFrame

\* the running solve returns: at the iteration limit with success = False
EndSolve(p) ==
    /\ threads[p].pc = "called"
    /\ Len(threads[p].solves) < SolvesNeeded(threads[p])
    /\ \E s \in SolveOutcomes(threads[p], Len(threads[p].solves) + 1) :
          /\ threads[p].iterations = MaxIter => ~s.success
          /\ threads' = [threads EXCEPT ![p].solves = Append(@, s),
                                        ![p].iterations = 0]
    /\ UNCHANGED <<risk_free_rate, attributes>>
    /\ ThreadFrame

\* a call that sets the instance's rate for its own computation
FinishCallSettingRate(p) ==
    /\ threads[p].pc = "called"
    /\ Len(threads[p].solves) = SolvesNeeded(threads[p])
    /\ threads' = [threads EXCEPT ![p].pc = "returned",
                                  ![p].result = CallResult(threads[p])]
    /\ risk_free_rate' = 0
    /\ UNCHANGED attributes
    /\ ThreadFrame

\* the call builds its result, reading self.risk_free_rate, and returns
FinishCall(p) ==
    /\ threads[p].pc = "called"
    /\ Len(threads[p].solves) = SolvesNeeded(threads[p])
    /\ threads' = [threads EXCEPT ![p].pc = "returned",
                                  ![p].result = CallResult(threads[p])]
    /\ UNCHANGED <<risk_free_rate, attributes>>
    /\ ThreadFrame

\* the caller drops the result; the thread is free for the next call
ForgetCall(p) ==
    /\ threads[p].pc = "returned"
    /\ threads' = [threads EXCEPT ![p] = IdleThread]
    /\ UNCHANGED <<risk_free_rate, attributes>>
    /\ ThreadFrame

ThreadStep(p) ==
    \/ BeginCall(p)
    \/ IterateSolve(p)
    \/ EndSolve(p)
    \/ FinishCall(p)
    \/ ForgetCall(p)

\* ------------------------------------------------------------ auth routes
\* The module state of routes/auth.py: users_db maps an email to the user
\* record, sessions a token to the email it was created for, search_history
\* an email to its list of searches, first entry first.  The 'created' and
\* 'timestamp' fields, which no route reads, are left out.  issued holds the
\* tokens create_session has returned so far: secrets.token_urlsafe(32) draws
\* 256 random bits, and is modelled as never returning the same token twice.
\* A token is a number of 1..MaxSessions; 0 is a request without the cookie.
DemoEmail == "demo@example.com"

NewEmail == "new@example.com"

\* the emails a request may carry, and str.lower() on them
Emails == {DemoEmail, NewEmail, "New@Example.com"}

Lower(email) == IF email = "New@Example.com" THEN NewEmail ELSE email

Passwords == {"demo123", "secret"}

\* the symbols an add request may carry, and str.upper() on them
Symbols == {"AAPL", "aapl", "MSFT"}

Upper(symbol) == IF symbol = "aapl" THEN "AAPL" ELSE symbol

\* the one symbol of the add requests where the sessions are what is checked
SessionSymbols == {"MSFT"}

Types == {"stock"}

Tokens == 1..MaxSessions

\* history[:20]
HistoryLimit == 20

\* hashlib.sha256(password.encode()).hexdigest(): one digest per password
hash_password(password) == <<"sha256", password>>

DemoHistory ==
    <<[symbol |-> "AAPL", type |-> "stock"],
      [symbol |-> "GOOGL", type |-> "stock"],
      [symbol |-> "TSLA", type |-> "sentiment"]>>

\* init_demo_user(): the demo account and its three searches; no session yet.
AuthAtLoad ==
    /\ users_db = [e \in {DemoEmail} |->
                      [id |-> DemoEmail, name |-> "Demo User", email |-> DemoEmail,
                       password_hash |-> hash_password("demo123")]]
    /\ sessions = [t \in {} |-> [user_id |-> ""]]
    /\ search_history = [e \in {DemoEmail} |-> DemoHistory]
    /\ issued = {}

NoUser == [id |-> "", name |-> "", email |-> "", password_hash |-> <<>>]

\* the user of a session token, or NoUser for None
get_user_from_session(session_token) ==
    IF session_token # 0 /\ session_token \in DOMAIN sessions
    THEN IF sessions[session_token].user_id \in DOMAIN users_db
         THEN users_db[sessions[session_token].user_id]
         ELSE NoUser
    ELSE NoUser

\* raise HTTPException(status_code=401, detail="Not authenticated")
NotAuthenticated ==
    [NoResult EXCEPT !.status = "raised", !.http = 401,
                     !.message = "Not authenticated"]

Answer(message) ==
    [NoResult EXCEPT !.status = "returned", !.http = 200, !.message = message]

\* the variables no auth route touches
AuthFrame ==
    UNCHANGED <<prices, returns, risk_free_rate, attributes, solves, threads>>

Register ==
    /\ \E e \in Emails, pw \in Passwords :
          LET email == Lower(e)
          IN  /\ args' = [NoArgs EXCEPT !.email = e, !.password = pw]
              /\ IF email \in DOMAIN users_db
                 THEN /\ result' = [NoResult EXCEPT
                                       !.status = "raised", !.http = 400,
                                       !.message = "Email already registered"]
                      /\ UNCHANGED <<users_db, search_history>>
                 ELSE /\ users_db' =
                            [u \in DOMAIN users_db \cup {email} |->
                                IF u = email
                                THEN [id |-> email, name |-> "New User",
                                      email |-> email,
                                      password_hash |-> hash_password(pw)]
                                ELSE users_db[u]]
                      /\ search_history' =
                            [u \in DOMAIN search_history \cup {email} |->
                                IF u = email THEN <<>> ELSE search_history[u]]
                      /\ result' = [Answer("Account created successfully")
                                       EXCEPT !.user = email]
    /\ op' = "register"
    /\ UNCHANGED <<sessions, issued>>
    /\ AuthFrame

\* create_session(user_id) returning token
create_session(user_id, token) ==
    /\ sessions' = [t \in DOMAIN sessions \cup {token} |->
                       IF t = token THEN [user_id |-> user_id] ELSE sessions[t]]
    /\ issued' = issued \cup {token}

Login ==
    /\ issued # Tokens
    /\ \E e \in Emails, pw \in Passwords :
          LET email == Lower(e)
          IN  /\ args' = [NoArgs EXCEPT !.email = e, !.password = pw]
              /\ IF \/ email \notin DOMAIN users_db
                    \/ users_db[email].password_hash # hash_password(pw)
                 THEN /\ result' = [NoResult EXCEPT
                                       !.status = "raised", !.http = 401,
                                       !.message = "Invalid email or password"]
                      /\ UNCHANGED <<sessions, issued>>
                 ELSE \E token \in Tokens \ issued :
                          /\ create_session(email, token)
                          /\ result' = [Answer("Login successful") EXCEPT
                                           !.user = users_db[email].email,
                                           !.token = token]
    /\ op' = "login"
    /\ UNCHANGED <<users_db, search_history>>
    /\ AuthFrame

\* logout deleting every session of the user of the token
LogoutEverywhere ==
    /\ \E session_token \in {0} \cup Tokens :
          /\ args' = [NoArgs EXCEPT !.token = session_token]
          /\ sessions' =
                IF session_token # 0 /\ session_token \in DOMAIN sessions
                THEN [t \in {t \in DOMAIN sessions :
                                sessions[t].user_id
                                    # sessions[session_token].user_id} |->
                         sessions[t]]
                ELSE sessions
    /\ result' = Answer("Logged out successfully")
    /\ op' = "logout"
    /\ UNCHANGED <<users_db, search_history, issued>>
    /\ AuthFrame

Logout ==
    /\ \E session_token \in {0} \cup Tokens :
          /\ args' = [NoArgs EXCEPT !.token = session_token]
          /\ sessions' =
                IF session_token # 0 /\ session_token \in DOMAIN sessions
                THEN [t \in DOMAIN sessions \ {session_token} |-> sessions[t]]
                ELSE sessions
    /\ result' = Answer("Logged out successfully")
    /\ op' = "logout"
    /\ UNCHANGED <<users_db, search_history, issued>>
    /\ AuthFrame

\* GET /me
GetCurrentUser ==
    /\ \E session_token \in {0} \cup Tokens :
          LET user == get_user_from_session(session_token)
          IN  /\ args' = [NoArgs EXCEPT !.token = session_token]
              /\ result' = IF user = NoUser THEN NotAuthenticated
                           ELSE [Answer("") EXCEPT !.user = user.email,
                                                   !.authenticated = TRUE]
    /\ op' = "me"
    /\ UNCHANGED <<users_db, sessions, search_history, issued>>
    /\ AuthFrame

\* GET /check
CheckAuth ==
    /\ \E session_token \in {0} \cup Tokens :
          /\ args' = [NoArgs EXCEPT !.token = session_token]
          /\ result' = [Answer("") EXCEPT
                           !.authenticated =
                               get_user_from_session(session_token) # NoUser]
    /\ op' = "check"
    /\ UNCHANGED <<users_db, sessions, search_history, issued>>
    /\ AuthFrame

\* s[:n]
Truncate(s, n) == IF Len(s) <= n THEN s ELSE SubSeq(s, 1, n)

\* lines 164-174: the entries whose stored symbol differs from item.symbol as
\* sent, the new entry with item.symbol.upper() put in front, cut to 20
add_to_history(history, symbol, type) ==
    Truncate(<<[symbol |-> Upper(symbol), type |-> type]>>
                 \o SelectSeq(history, LAMBDA h : h.symbol # symbol),
             HistoryLimit)

\* POST /history/add with a symbol of the set symbols
AddSearchHistory(symbols) ==
    /\ \E session_token \in {0} \cup Tokens, symbol \in symbols, type \in Types :
          LET user == get_user_from_session(session_token)
              user_id == user.email
              history == IF user_id \in DOMAIN search_history
                         THEN search_history[user_id] ELSE <<>>
          IN  /\ args' = [NoArgs EXCEPT !.token = session_token,
                                        !.symbol = symbol, !.type = type]
              /\ IF user = NoUser
                 THEN /\ result' = NotAuthenticated
                      /\ UNCHANGED search_history
                 ELSE /\ search_history' =
                            [u \in DOMAIN search_history \cup {user_id} |->
                                IF u = user_id
                                THEN add_to_history(history, symbol, type)
                                ELSE search_history[u]]
                      /\ result' = [Answer("Added to history") EXCEPT
                                       !.user = user_id]
    /\ op' = "history_add"
    /\ UNCHANGED <<users_db, sessions, issued>>
    /\ AuthFrame

GetSearchHistory ==
    /\ \E session_token \in {0} \cup Tokens :
          LET user == get_user_from_session(session_token)
              user_id == user.email
          IN  /\ args' = [NoArgs EXCEPT !.token = session_token]
              /\ result' =
                    IF user = NoUser THEN NotAuthenticated
                    ELSE [Answer("") EXCEPT
                             !.user = user_id,
                             !.history = IF user_id \in DOMAIN search_history
                                         THEN search_history[user_id]
                                         ELSE <<>>]
    /\ op' = "history"
    /\ UNCHANGED <<users_db, sessions, search_history, issued>>
    /\ AuthFrame

\* clear_search_history emptying every user's history
ClearSearchHistoryOfAll ==
    /\ \E session_token \in {0} \cup Tokens :
          LET user == get_user_from_session(session_token)
          IN  /\ args' = [NoArgs EXCEPT !.token = session_token]
              /\ IF user = NoUser
                 THEN /\ result' = NotAuthenticated
                      /\ UNCHANGED search_history
                 ELSE /\ search_history' =
                            [u \in DOMAIN search_history \cup {user.email} |->
                                <<>>]
                      /\ result' = [Answer("History cleared") EXCEPT
                                       !.user = user.email]
    /\ op' = "history_clear"
    /\ UNCHANGED <<users_db, sessions, issued>>
    /\ AuthFrame

ClearSearchHistory ==
    /\ \E session_token \in {0} \cup Tokens :
          LET user == get_user_from_session(session_token)
              user_id == user.email
          IN  /\ args' = [NoArgs EXCEPT !.token = session_token]
              /\ IF user = NoUser
                 THEN /\ result' = NotAuthenticated
                      /\ UNCHANGED search_history
                 ELSE /\ search_history' =
                            [u \in DOMAIN search_history \cup {user_id} |->
                                IF u = user_id THEN <<>> ELSE search_history[u]]
                      /\ result' = [Answer("History cleared") EXCEPT
                                       !.user = user_id]
    /\ op' = "history_clear"
    /\ UNCHANGED <<users_db, sessions, issued>>
    /\ AuthFrame

\* ---------------------------------------------------------- specification
Init ==
    /\ \E n \in 0..MaxAssets : returns \in Matrices(n)
    /\ risk_free_rate = DefaultRiskFreeRate
    /\ attributes = {"risk_free_rate"}
    /\ threads = <<>>
    /\ AuthAtLoad
    /\ prices = <<>>
    /\ op = "none"
    /\ args = NoArgs
    /\ solves = <<>>
    /\ result = NoResult

Next ==
    \/ OptimizeSharpe
    \/ OptimizeMinVolatility
    \/ CalculateVar
    \/ EfficientFrontier
    \/ OptimizePortfolio
    \/ Discard

Spec == Init /\ [][Next]_vars

\* diversification_score and the risk-analysis request: they read nothing
\* but the weights mapping
InitDiv ==
    /\ returns = <<>>
    /\ risk_free_rate = DefaultRiskFreeRate
    /\ attributes = {"risk_free_rate"}
    /\ threads = <<>>
    /\ AuthAtLoad
    /\ prices = <<>>
    /\ op = "none"
    /\ args = NoArgs
    /\ solves = <<>>
    /\ result = NoResult

NextDiv ==
    \/ DiversificationOfAllocation
    \/ DiversificationOfRequest
    \/ AnalyzeRisk
    \/ Discard

SpecDiv == InitDiv /\ [][NextDiv]_vars

\* calculate_var on one asset whose return series is drawn from the values
\* of the series -0.04, -0.01, 0.00, 0.02, 0.03 (in basis points), in any
\* order and with repetitions
ScenarioSeries == <<-400, -100, 0, 200, 300>>

ScenarioVals == {ScenarioSeries[t] : t \in 1..Len(ScenarioSeries)}

InitScenario ==
    /\ \E s \in [1..Len(ScenarioSeries) -> ScenarioVals] :
          returns = [t \in 1..Len(ScenarioSeries) |-> <<s[t]>>]
    /\ risk_free_rate = DefaultRiskFreeRate
    /\ attributes = {"risk_free_rate"}
    /\ threads = <<>>
    /\ AuthAtLoad
    /\ prices = <<>>
    /\ op = "none"
    /\ args = NoArgs
    /\ solves = <<>>
    /\ result = NoResult

NextScenario ==
    \/ CalculateVar
    \/ Discard

SpecScenario == InitScenario /\ [][NextScenario]_vars

\* calculate_returns alone: it reads nothing but the price table
InitReturns ==
    /\ prices \in PriceTables
    /\ returns = <<>>
    /\ risk_free_rate = DefaultRiskFreeRate
    /\ attributes = {"risk_free_rate"}
    /\ threads = <<>>
    /\ AuthAtLoad
    /\ op = "none"
    /\ args = NoArgs
    /\ solves = <<>>
    /\ result = NoResult

NextReturns ==
    \/ CalculateReturns
    \/ Discard

SpecReturns == InitReturns /\ [][NextReturns]_vars

\* the Sharpe ratio and its optimisation, on return matrices that include
\* assets whose price did not move
InitSharpe ==
    /\ \E n \in 1..MaxAssets : returns \in MatricesOver(n, SharpeReturnVals)
    /\ risk_free_rate = DefaultRiskFreeRate
    /\ attributes = {"risk_free_rate"}
    /\ threads = <<>>
    /\ AuthAtLoad
    /\ prices = <<>>
    /\ op = "none"
    /\ args = NoArgs
    /\ solves = <<>>
    /\ result = NoResult

NextSharpe ==
    \/ CalculateSharpeRatio
    \/ OptimizeSharpe
    \/ Discard

SpecSharpe == InitSharpe /\ [][NextSharpe]_vars

\* the allocation of an optimize response alone: it reads nothing but the
\* weights of the result
NextAllocation ==
    \/ AllocationOfResult
    \/ Discard

SpecAllocation == InitDiv /\ [][NextAllocation]_vars

\* two threads calling the one optimizer the routes share
InitConcurrent ==
    /\ prices = <<>>
    /\ returns = <<>>
    /\ risk_free_rate = DefaultRiskFreeRate
    /\ attributes = {"risk_free_rate"}
    /\ op = "none"
    /\ args = NoArgs
    /\ solves = <<>>
    /\ result = NoResult
    /\ threads = <<IdleThread, IdleThread>>
    /\ AuthAtLoad

NextConcurrent == \E p \in DOMAIN threads : ThreadStep(p)

SpecConcurrent == InitConcurrent /\ [][NextConcurrent]_vars

\* one thread that keeps running: a call that can take a step takes one
InitTermination ==
    /\ prices = <<>>
    /\ returns = <<>>
    /\ risk_free_rate = DefaultRiskFreeRate
    /\ attributes = {"risk_free_rate"}
    /\ op = "none"
    /\ args = NoArgs
    /\ solves = <<>>
    /\ result = NoResult
    /\ threads = <<IdleThread>>
    /\ AuthAtLoad

SpecTermination ==
    InitTermination /\ [][ThreadStep(1)]_vars /\ WF_vars(ThreadStep(1))

\* the auth routes on the module state as loaded
InitAuth ==
    /\ prices = <<>>
    /\ returns = <<>>
    /\ risk_free_rate = DefaultRiskFreeRate
    /\ attributes = {"risk_free_rate"}
    /\ op = "none"
    /\ args = NoArgs
    /\ solves = <<>>
    /\ result = NoResult
    /\ threads = <<>>
    /\ AuthAtLoad

NextAuth ==
    \/ Register
    \/ Login
    \/ Logout
    \/ GetCurrentUser
    \/ CheckAuth
    \/ AddSearchHistory(SessionSymbols)
    \/ GetSearchHistory
    \/ ClearSearchHistory

SpecAuth == InitAuth /\ [][NextAuth]_vars

\* the search history of the demo user: no registration and no logout
NextHistory ==
    \/ Login
    \/ AddSearchHistory(Symbols)
    \/ GetSearchHistory
    \/ ClearSearchHistory

SpecHistory == InitAuth /\ [][NextHistory]_vars

\* ======================================================================
\*                                claims
\* ======================================================================
OptimizeOps == {"optimize_sharpe", "optimize_min_volatility"}

C2_WeightsArePercentages ==
    (op = "optimize_sharpe" /\ result.success) =>
        Abs(SumSeq(result.weights) - 100 * WUnit) * 10 < WUnit

\* C3: when the solver reports success = False, optimize_sharpe and
\* optimize_min_volatility do not raise: they return a result with
\* success = False that carries a failure reason.
C3_FailureIsReturned ==
    (op \in OptimizeOps /\ solves # <<>> /\ ~solves[1].success) =>
        /\ result.status = "returned"
        /\ ~result.success
        /\ result.message # ""

C3_Witness ==
    /\ op = "optimize_sharpe"
    /\ solves # <<>>
    /\ ~solves[1].success
    /\ result.status = "returned"

\* C4: VaR is monotone in the confidence: calculate_var(R, w, 0.99, V) >=
\* calculate_var(R, w, 0.95, V) for every R, w and V, and every optimize
\* response has var_99 >= var_95.
C4_VarMonotone ==
    /\ op = "calculate_var" =>
          calculate_var(returns, args.weights, 99, args.portfolio_value)
              >= calculate_var(returns, args.weights, 95, args.portfolio_value)
    /\ (op = "optimize_portfolio" /\ result.http = 200) =>
          result.var_99 >= result.var_95

\* C5: calculate_var takes the (1 - confidence) percentile of the portfolio
\* return series with linear interpolation, times portfolio_value, in absolute
\* value: for the series -0.04, -0.01, 0.00, 0.02, 0.03 (in any row order),
\* portfolio_value 100000 and confidence 0.95 the result is 3400.00.
IsScenario ==
    /\ op = "calculate_var"
    /\ SortSeq([t \in 1..Len(returns) |-> returns[t][1]], LAMBDA x, y : x < y)
           = ScenarioSeries
    /\ args.weights = <<WUnit>>
    /\ args.confidence = 95
    /\ args.portfolio_value = 1000

C5_ScenarioVar ==
    IsScenario =>
        /\ result.var = 340000 * 100 * WUnit
        /\ RoundedVar(result.var) = 340000

C5_Witness == IsScenario /\ returns[1][1] = 300 /\ result.status = "returned"

\* C6: for n assets the score of the equal-weight vector is exactly 100 and
\* the score of a fully concentrated vector is exactly 100/n.
IsEqualWeight(w) == Len(w) > 0 /\ \A i \in 1..Len(w) : Len(w) * w[i] = DivUnit

IsConcentrated(w) ==
    /\ Len(w) > 0
    /\ \E i \in 1..Len(w) :
          w[i] = DivUnit /\ \A j \in 1..Len(w) : j # i => w[j] = 0

C6_ScoreExact ==
    (op = "diversification_score" /\ result.status = "returned") =>
        /\ IsEqualWeight(args.weights) => result.score = 10000
        /\ IsConcentrated(args.weights) => result.score * Len(args.weights) = 10000

\* C6 as amended: the score of the equal-weight vector is exactly 100 and the
\* score of a fully concentrated vector is 100/n rounded to 2 decimals.
C6_ScoreRounded ==
    (op = "diversification_score" /\ result.status = "returned") =>
        /\ IsEqualWeight(args.weights) => result.score = 10000
        /\ IsConcentrated(args.weights) =>
              result.score = Round(10000, Len(args.weights))

C6_Witness ==
    /\ op = "diversification_score"
    /\ args.weights = <<0, DivUnit, 0>>
    /\ result.score = 3333

\* C7: for two assets the score of {A: 1.0, B: 0.0} is 50.0 and the score of
\* {A: 0.5, B: 0.5} is 100.0.
C7_TwoAssets ==
    (op = "diversification_score" /\ Len(args.weights) = 2) =>
        /\ args.weights = <<DivUnit, 0>> => result.score = 5000
        /\ args.weights = <<DivUnit \div 2, DivUnit \div 2>> => result.score = 10000

C7_Witness ==
    /\ op = "diversification_score"
    /\ args.weights = <<DivUnit, 0>>
    /\ result.score = 5000

\* C8: diversification_score returns a value between 0 and 100 inclusive for
\* every non-empty weights mapping, the unvalidated mapping of a risk-analysis
\* request included.
C8_ScoreInRange ==
    (op = "diversification_score" /\ Len(args.weights) > 0) =>
        0 <= result.score /\ result.score <= 10000

\* C9: for a successful optimize_min_volatility the returned volatility is <=
\* the volatility of the equal-weight portfolio computed from the same R
\* (both in percent; the returned one is a whole number of 0.01%).
EqualWeightMetrics ==
    calculate_portfolio_metrics(equal_weights(n_assets(returns)), returns)

C9_Convexity ==
    (op = "optimize_min_volatility" /\ result.success) =>
        result.volatility * result.volatility * EqualWeightMetrics.var_den
            <= EqualWeightMetrics.var_num

\* C9 as amended: the volatility at the returned weights is <= the equal-weight
\* volatility, and the returned volatility (rounded to 2 decimals) is <= the
\* equal-weight volatility rounded the same way.
C9_ConvexityRounded ==
    (op = "optimize_min_volatility" /\ result.success) =>
        /\ calculate_portfolio_metrics(result.weights, returns).var_num
              <= EqualWeightMetrics.var_num
        /\ result.volatility <= RoundedVolatility(EqualWeightMetrics)

C9_Witness ==
    /\ op = "optimize_min_volatility"
    /\ result.success
    /\ result.weights # equal_weights(n_assets(returns))
    /\ result.volatility < RoundedVolatility(EqualWeightMetrics)

\* C10: in efficient_frontier a target whose solve fails is omitted and the
\* later targets are still solved: the result holds exactly the points of the
\* successful solves, in ascending order of target return, at most n_points
\* of them.
SucceededAt(ss) == SelectSeq([i \in 1..Len(ss) |-> i], LAMBDA i : ss[i].success)

C10_FailureIsolation ==
    (op = "efficient_frontier" /\ n_assets(returns) > 0) =>
        LET at == SucceededAt(solves)
        IN  /\ result.status = "returned"
            /\ Len(solves) = args.n_points
            /\ Len(result.frontier_weights) <= args.n_points
            /\ result.frontier_weights = [k \in 1..Len(at) |-> solves[at[k]].x]
            /\ Len(result.frontier_returns) = Len(at)
            /\ \A k \in 1..Len(at) :
                  LET target == target_returns(returns, args.n_points, at[k])
                  IN  result.frontier_returns[k] * target[2]
                          = target[1] * EqualWeightMetrics.ret_den
            /\ \A k \in 1..(Len(at) - 1) :
                  result.frontier_returns[k] <= result.frontier_returns[k + 1]

C10_Witness ==
    /\ op = "efficient_frontier"
    /\ args.n_points = 3
    /\ Len(solves) = 3
    /\ ~solves[1].success
    /\ solves[2].success
    /\ solves[3].success
    /\ Len(result.frontier_weights) = 2
    /\ result.frontier_returns[1] < result.frontier_returns[2]

\* the number of targets of ss whose solve failed
Omitted(ss) == Len(ss) - Len(SucceededAt(ss))

\* C11: the result of efficient_frontier tells, by itself, how many points
\* were requested and how many were omitted: no other call on the same
\* returns, with another n_points or another number of failed solves, gives
\* the same result.
C11_OmissionsSurfaced ==
    (op = "efficient_frontier" /\ result.status = "returned") =>
        \A n \in 0..MaxPoints : \A ss \in FrontierSolves(returns, n) :
            efficient_frontier(returns, n, ss) = result =>
                /\ n = args.n_points
                /\ Omitted(ss) = Omitted(solves)

\* C12: among the returned frontier points, from a point of least volatility
\* on, the volatility does not decrease as the target return increases.
C12_FrontierMonotone ==
    (op = "efficient_frontier" /\ result.status = "returned") =>
        LET vol == result.frontier_volatility
        IN  \A m \in 1..Len(vol) :
                (\A k \in 1..Len(vol) : vol[m] <= vol[k]) =>
                    \A k \in m..(Len(vol) - 1) : vol[k] <= vol[k + 1]

C12_Witness ==
    /\ op = "efficient_frontier"
    /\ Len(result.frontier_volatility) = 3
    /\ result.frontier_volatility[2] < result.frontier_volatility[1]
    /\ result.frontier_volatility[2] < result.frontier_volatility[3]

\* C13: for a price table of P >= 2 rows calculate_returns gives a matrix of
\* P - 1 rows, the first row being dropped, whose cell [t][j] is
\* price[t+1][j] / price[t][j] - 1 and never NaN; the price table it was
\* given is left as it was.
C13_ReturnsFromPrices ==
    (op = "calculate_returns" /\ Len(args.prices) >= 2) =>
        LET P == args.prices
            M == result.returns_matrix
        IN  /\ result.status = "returned"
            /\ Len(M) = Len(P) - 1
            /\ \A t \in 1..Len(M) :
                  /\ Len(M[t]) = Len(P[t + 1])
                  /\ \A j \in 1..Len(M[t]) :
                        /\ ~M[t][j].nan
                        /\ M[t][j].num * P[t][j]
                              = (P[t + 1][j] - P[t][j]) * M[t][j].den
            /\ prices = P

C13_Witness ==
    /\ op = "calculate_returns"
    /\ prices = <<<<100, 125>>, <<125, 125>>, <<100, 125>>>>
    /\ Len(result.returns_matrix) = 2
    /\ result.returns_matrix[1][1] = [nan |-> FALSE, num |-> 25, den |-> 100]
    /\ result.returns_matrix[2][1] = [nan |-> FALSE, num |-> -25, den |-> 125]

\* C14: calculate_returns fails with InsufficientDataError when the price
\* table has fewer than 2 rows; it does not return an empty matrix.
C14_TooFewRowsFail ==
    (op = "calculate_returns" /\ Len(args.prices) < 2) =>
        /\ result.status = "raised"
        /\ result.error = "InsufficientDataError"

\* the volatility of the portfolio args.weights on returns is 0
ZeroVolatility(w) == calculate_portfolio_metrics(w, returns).var_num = 0

\* C15: the Sharpe computation fails with UndefinedSharpeError whenever the
\* annualized volatility is 0; it never produces an infinity or NaN.
C15_UndefinedSharpe ==
    op = "calculate_sharpe_ratio" =>
        /\ ZeroVolatility(args.weights) =>
              result.status = "raised" /\ result.error = "UndefinedSharpeError"
        /\ result.status = "returned" => result.sharpe_ratio.kind = "finite"

\* C16: optimize_sharpe on a single asset with constant return ends with
\* UndefinedSharpeError or with success = False and a reason that names the
\* zero volatility (so not the reason of a solver that gave up); it does not
\* crash and does not succeed with a NaN or infinite metric.
ConstantSingleAsset ==
    /\ n_assets(returns) = 1
    /\ \A t \in 1..Len(returns) : returns[t] = returns[1]

C16_DegenerateInput ==
    (op = "optimize_sharpe" /\ ConstantSingleAsset) =>
        \/ result.status = "raised" /\ result.error = "UndefinedSharpeError"
        \/ /\ result.status = "returned"
           /\ ~result.success
           /\ result.error = "UndefinedSharpeError"
              \/ result.message \notin {"", "Optimization failed"}

\* C17: risk analysis on weights a caller supplied ends with
\* InvalidWeightsError when they do not sum to 1 or hold a negative value:
\* the route answers with that typed failure, and no diversification score is
\* computed from such a mapping.
InvalidWeights(w) == SumSeq(w) # DivUnit \/ \E i \in 1..Len(w) : w[i] < 0

C17_InvalidWeightsRejected ==
    (args.method = "risk-analysis" /\ InvalidWeights(args.weights)) =>
        /\ op = "analyze_risk" => result.error = "InvalidWeightsError"
        /\ op = "diversification_score" =>
              result.status = "raised" /\ result.error = "InvalidWeightsError"

\* C18: optimize_sharpe and optimize_min_volatility over fewer than 2 assets
\* return a failure result typed InsufficientDataError: they neither succeed
\* nor raise.
C18_TooFewAssetsFail ==
    (op \in OptimizeOps /\ n_assets(returns) < 2) =>
        /\ result.status = "returned"
        /\ ~result.success
        /\ result.error = "InsufficientDataError"

\* C19: in the optimize response allocation.weights holds each weight as a
\* percentage rounded to 2 decimals, and for every successful optimisation
\* these percentages sum to 100.0 within 0.1, whatever the number of assets.
C19_AllocationSums ==
    (op = "allocation" /\ result.http = 200) =>
        /\ \A j \in 1..Len(result.weights) :
              result.allocation[j]
                  = Round(result.weights[j] * 10000, SumSeq(result.weights))
        /\ Abs(SumSeq(result.allocation) - 10000) <= 10

\* C19 as amended: each percentage is rounded to 2 decimals on its own, so
\* their sum is within 0.005 per asset of 100.0: within 0.1 for up to 20
\* assets.
C19_AllocationSumsPerAsset ==
    (op = "allocation" /\ result.http = 200) =>
        /\ \A j \in 1..Len(result.weights) :
              result.allocation[j]
                  = Round(result.weights[j] * 10000, SumSeq(result.weights))
        /\ 2 * Abs(SumSeq(result.allocation) - 10000) <= Len(result.weights)
        /\ Len(result.weights) <= 20 =>
              Abs(SumSeq(result.allocation) - 10000) <= 10

C19_Witness ==
    /\ op = "allocation"
    /\ Len(result.weights) > 20
    /\ result.weights[Len(result.weights)] = 1
    /\ Abs(SumSeq(result.allocation) - 10000) > 10

\* C20: no operation of the optimizer changes risk_free_rate after
\* construction or stores any other attribute on the instance.
C20_InstanceUnchanged ==
    [][risk_free_rate' = risk_free_rate /\ attributes' = attributes]_vars

C20_Witness ==
    /\ op = "optimize_sharpe"
    /\ result.success
    /\ result.sharpe_ratio.num
           = calculate_portfolio_metrics(result.weights, returns).ret_num
                 - DefaultRiskFreeRate * result.sharpe_ratio.den
    /\ risk_free_rate = DefaultRiskFreeRate
    /\ attributes = {"risk_free_rate"}

\* C21: under every interleaving of calls on the shared optimizer, a call
\* that has returned holds the result the same call gives when it runs alone
\* on the instance as constructed: the result of its own arguments and of its
\* own solves.
C21_ConcurrentCallsSafe ==
    /\ risk_free_rate = DefaultRiskFreeRate
    /\ \A p \in DOMAIN threads :
          threads[p].pc = "returned" => threads[p].result = CallResult(threads[p])

C21_Witness ==
    /\ threads[1].pc = "returned"
    /\ threads[1].op = "optimize_sharpe"
    /\ threads[1].result.success
    /\ threads[2].pc = "called"
    /\ threads[2].op = "efficient_frontier"
    /\ Len(threads[2].solves) = 1
    /\ threads[2].R # threads[1].R

C23_NoRetries ==
    /\ (op \in OptimizeOps /\ n_assets(returns) > 0) =>
          /\ Len(solves) = 1
          /\ result.success = solves[1].success
    /\ (op = "efficient_frontier" /\ n_assets(returns) > 0) =>
          /\ Len(solves) = args.n_points
          /\ Len(result.frontier_weights) = args.n_points - Omitted(solves)

C23_Witness ==
    /\ op = "efficient_frontier"
    /\ args.n_points = 2
    /\ Len(solves) = 2
    /\ ~solves[1].success
    /\ ~solves[2].success
    /\ result.frontier_weights = <<>>

\* s is an outcome the solver may give for the objective and target when it
\* is started from x0 on the returns: a failure, or a feasible point that, for
\* the convex objective, is a minimum and is x0 itself when x0 is one.
FeasiblePoint(w, target) ==
    /\ w \in Weights(n_assets(returns))
    /\ \/ target = <<>>
       \/ portfolio_return_num(w, returns) * target[2]
              = target[1] * Len(returns) * WUnit

SolvedFrom(x0, s, objective, target) ==
    s.success =>
        /\ FeasiblePoint(s.x, target)
        /\ objective = "volatility" =>
              /\ IsMinimum(s.x, returns, target # <<>>)
              /\ (FeasiblePoint(x0, target) /\ IsMinimum(x0, returns, target # <<>>))
                    => s.x = x0

FrontierTargets ==
    [i \in 1..args.n_points |-> target_returns(returns, args.n_points, i)]

MinAssetReturn == <<TradingDays * MinColSum(returns), Len(returns)>>

MaxAssetReturn == <<TradingDays * MaxColSum(returns), Len(returns)>>

SameRatio(a, b) == a[1] * b[2] = b[1] * a[2]

\* t[i + 1] - t[i] is the same for every i
EvenlySpaced(t) ==
    \A i \in 1..(Len(t) - 2) :
        (t[i + 1][1] * t[i][2] - t[i][1] * t[i + 1][2]) * t[i + 1][2] * t[i + 2][2]
            = (t[i + 2][1] * t[i + 1][2] - t[i + 1][1] * t[i + 2][2])
                  * t[i][2] * t[i + 1][2]

\* solve i of the call was run under the constraint of target i alone: a
\* successful one returns a point whose annualized return is target i
SolvedPerTarget ==
    /\ Len(solves) = args.n_points
    /\ \A i \in 1..Len(solves) :
          solves[i].success => FeasiblePoint(solves[i].x, FrontierTargets[i])

\* C25 as stated: efficient_frontier with N points solves for N targets,
\* evenly spaced from the least to the greatest single-asset annualized mean
\* return with both ends among them, each solve under its own target only.
C25_TargetsEvenlySpaced ==
    (op = "efficient_frontier" /\ n_assets(returns) > 0 /\ args.n_points > 0) =>
        /\ SolvedPerTarget
        /\ EvenlySpaced(FrontierTargets)
        /\ SameRatio(FrontierTargets[1], MinAssetReturn)
        /\ SameRatio(FrontierTargets[args.n_points], MaxAssetReturn)

\* C25 amended: as above, the greatest return being the last target when
\* there are two points or more; a single point has the least return for its
\* target.
C25_TargetsEvenlySpacedFromMin ==
    (op = "efficient_frontier" /\ n_assets(returns) > 0 /\ args.n_points > 0) =>
        /\ SolvedPerTarget
        /\ EvenlySpaced(FrontierTargets)
        /\ SameRatio(FrontierTargets[1], MinAssetReturn)
        /\ args.n_points >= 2 =>
              SameRatio(FrontierTargets[args.n_points], MaxAssetReturn)

C25_Witness ==
    /\ op = "efficient_frontier"
    /\ args.n_points = 3
    /\ n_assets(returns) > 0
    /\ MinColSum(returns) # MaxColSum(returns)
    /\ \A i \in 1..3 : solves[i].success
    /\ solves[1].x # solves[2].x /\ solves[2].x # solves[3].x

\* mu . w with mu the per-asset means of returns, as a numerator over
\* Len(returns) * WUnit
MeanDotWeights(w) ==
    SumSeq([j \in 1..Len(w) |->
               SumSeq([t \in 1..Len(returns) |-> returns[t][j]]) * w[j]])

\* w' Sigma w with Sigma the sample covariance of returns: the sample
\* variance of the per-period portfolio returns returns[t] . w, as a
\* numerator over Len(returns)^2 * (Len(returns) - 1) * WUnit^2
WeightedVariance(w) ==
    LET T == Len(returns)
        p == [t \in 1..T |->
                 SumSeq([j \in 1..Len(w) |-> returns[t][j] * w[j]])] @@ <<>>
        total == SumSeq(p)
    IN  SumSeq([t \in 1..T |-> (T * p[t] - total) * (T * p[t] - total)])

\* C26: for weights w on returns with means mu and covariance Sigma the
\* annualized return is 252 * (mu . w), the annualized volatility is
\* sqrt(252 * w' Sigma w), and the Sharpe ratio is the quotient of the return
\* less risk_free_rate by the volatility (the floating-point quotient: finite
\* exactly when the volatility is not 0); 252 is the same in every call.
C26_MetricFormulas ==
    op = "calculate_sharpe_ratio" =>
        LET w == args.weights
            T == Len(returns)
            s == result.sharpe_ratio
        IN  /\ s.den = T * WUnit
            /\ s.num + risk_free_rate * s.den = 252 * MeanDotWeights(w)
            /\ s.var_den = T * T * (T - 1) * WUnit * WUnit
            /\ s.var_num = 252 * WeightedVariance(w)
            /\ s.kind = "finite" <=> WeightedVariance(w) # 0
            /\ s.kind = "inf" <=>
                  (WeightedVariance(w) = 0
                      /\ 252 * MeanDotWeights(w) > risk_free_rate * T * WUnit)
            /\ s.kind = "-inf" <=>
                  (WeightedVariance(w) = 0
                      /\ 252 * MeanDotWeights(w) < risk_free_rate * T * WUnit)

C26_Witness ==
    /\ op = "calculate_sharpe_ratio"
    /\ n_assets(returns) = 2
    /\ args.weights[1] > 0 /\ args.weights[2] > 0
    /\ \E t \in 1..Len(returns) : returns[t][1] # returns[t][2]
    /\ result.sharpe_ratio.kind = "finite"
    /\ result.sharpe_ratio.num # 0

\* the successful solves of a call, in the order of their targets
Successful(ss) == SelectSeq(ss, LAMBDA s : s.success)

\* C27: the three lists of an efficient_frontier result have one length, the
\* number of successful solves (from 0 to n_points), and entry i of each list
\* is of the i-th successful solve: its weights, their return and their
\* squared volatility.
C27_FrontierAligned ==
    op = "efficient_frontier" =>
        LET ok == Successful(solves)
        IN  /\ Len(ok) <= args.n_points
            /\ Len(result.frontier_returns) = Len(ok)
            /\ Len(result.frontier_volatility) = Len(ok)
            /\ Len(result.frontier_weights) = Len(ok)
            /\ \A i \in 1..Len(ok) :
                  /\ result.frontier_weights[i] = ok[i].x
                  /\ result.frontier_returns[i] = 252 * MeanDotWeights(ok[i].x)
                  /\ result.frontier_volatility[i] = 252 * WeightedVariance(ok[i].x)

C27_Witness ==
    /\ op = "efficient_frontier"
    /\ args.n_points = 3
    /\ Len(solves) = 3
    /\ solves[1].success /\ ~solves[2].success /\ solves[3].success
    /\ Len(result.frontier_weights) = 2
    /\ result.frontier_weights[1] # result.frontier_weights[2]
    /\ result.frontier_returns[1] # result.frontier_returns[2]

\* no two entries of the history have the same symbol
DistinctSymbols(history) ==
    \A i, j \in 1..Len(history) :
        history[i].symbol = history[j].symbol => i = j

\* C28: every user's search history has at most 20 entries and at most one
\* entry per symbol, and an accepted add puts the entry of the symbol, stored
\* upper-cased, in front of the entries of the other symbols, which keep
\* their order: an entry of that symbol in any letter case is replaced.
C28_HistoryDistinct ==
    /\ [](\A u \in DOMAIN search_history :
             /\ Len(search_history[u]) <= 20
             /\ DistinctSymbols(search_history[u]))
    /\ [][(op' = "history_add" /\ result'.http = 200) =>
             LET stored == Upper(args'.symbol)
                 old == search_history[result'.user]
                 new == search_history'[result'.user]
             IN  /\ new[1] = [symbol |-> stored, type |-> args'.type]
                 /\ Tail(new) =
                       Truncate(SelectSeq(old, LAMBDA h : h.symbol # stored), 19)
          ]_vars

\* the routes that answer 401 to a request that get_user_from_session does
\* not authenticate
AuthenticatedOps == {"me", "history_add", "history", "history_clear"}

\* C29: a token authenticates from the successful login that created it to
\* the logout that presents it.  A request of /me or of a history route is
\* answered 401 exactly when its token has no session, and /check reports the
\* same; a session begins only as the token of a successful login, ends only
\* by a logout presenting its token, which ends no other session, and a token
\* whose session has ended never has a session again.
C29_SessionLifecycle ==
    /\ [](/\ op \in AuthenticatedOps =>
                (result.http = 401 <=> args.token \notin DOMAIN sessions)
          /\ op = "check" =>
                (result.authenticated <=> args.token \in DOMAIN sessions))
    /\ [][\A t \in Tokens :
             /\ (t \notin DOMAIN sessions /\ t \in DOMAIN sessions') =>
                   /\ op' = "login" /\ result'.http = 200 /\ result'.token = t
                   /\ t \notin issued
             /\ (t \in DOMAIN sessions /\ t \notin DOMAIN sessions') =>
                   op' = "logout" /\ args'.token = t
             /\ (t \in DOMAIN sessions /\ t \in DOMAIN sessions') =>
                   sessions'[t] = sessions[t]
             /\ (op' = "logout" /\ args'.token = t) => t \notin DOMAIN sessions'
          ]_vars

C29_Witness ==
    /\ op = "me"
    /\ args.token \in issued
    /\ args.token \notin DOMAIN sessions
    /\ result.http = 401
    /\ \E t \in DOMAIN sessions : sessions[t].user_id = DemoEmail
    /\ issued = Tokens

HistoryOps == {"history_add", "history", "history_clear"}

\* C30: a history request whose token has no session is answered 401, a
\* request answered 401 and a read leave search_history as it was, and an
\* accepted add or clear leaves the history of every user but the session's
\* as it was.
C30_HistoryIsolated ==
    [][op' \in HistoryOps =>
          /\ args'.token \notin DOMAIN sessions => result'.http = 401
          /\ (result'.http = 401 \/ op' = "history") =>
                search_history' = search_history
          /\ result'.http = 200 =>
                /\ DOMAIN search_history' = DOMAIN search_history
                /\ \A u \in DOMAIN search_history :
                      u # sessions[args'.token].user_id =>
                          search_history'[u] = search_history[u]
      ]_vars

C30_Witness ==
    /\ op = "history_add"
    /\ result.http = 200
    /\ result.user = NewEmail
    /\ search_history[NewEmail] # <<>>
    /\ search_history[DemoEmail] = DemoHistory

====
